---- MODULE Spec2Model ----
(***************************************************************************)
(* Model of dp_learning_ff/mean_estimation/coinpress.py: the               *)
(* CoinpressPrototyping configuration object (validated setters, the       *)
(* mechanism property, try_calibrate and its two calibration paths,        *)
(* prototypes) and the prototype assembly give_private_prototypes /        *)
(* private_mean.                                                           *)
(*                                                                         *)
(* Encoding.  Optional values are tuples: <<>> is Python's None and <<v>>  *)
(* is the value v.  Real numbers are scaled integers: probabilities and    *)
(* sampling ratios are in tenths (10 is 1.0), delta is in units of 1e-6.   *)
(* Feature arrays have one column (d = 1) and a point is its coordinate;   *)
(* ndim is the number of axes of train_preds.                              *)
(***************************************************************************)
EXTENDS Integers, Sequences, FiniteSets, TLC

VARIABLES epsilon, delta, steps, dist, Ps, p_sampling, sample_each_step,
          order, mechanism, last, args, ret

cfg == <<epsilon, delta, steps, dist, Ps, p_sampling, sample_each_step, order>>
vars == <<epsilon, delta, steps, dist, Ps, p_sampling, sample_each_step,
          order, mechanism, last, args, ret>>

\* ------------------------------------------------------------------ bounds
\* Largest number of rows of train_preds.
MaxN == 3

\* ------------------------------------------------------- optional values
None == <<>>
Some(v) == <<v>>
Val(o) == o[1]

\* 1.0 in tenths: the threshold of `subsampling < 1.0` and the upper end of
\* the p_sampling range.
One == 10
\* The dataclass default of seed.
DefaultSeed == 42
\* Number of columns of the feature arrays of the model.
D == 1

\* -------------------------------------------------------------- numpy
\* np.unique: the distinct values, ascending.
RECURSIVE SortedSeq(_)
SortedSeq(S) ==
    IF S = {} THEN <<>>
    ELSE LET m == CHOOSE x \in S : \A y \in S : x <= y
         IN <<m>> \o SortedSeq(S \ {m})

\* unique without the sort: the labels in their order of first occurrence.
RECURSIVE unique_unsorted(_)
unique_unsorted(train_targets) ==
    IF train_targets = <<>> THEN <<>>
    ELSE LET h == Head(train_targets)
         IN <<h>> \o unique_unsorted(SelectSeq(Tail(train_targets),
                                               LAMBDA x : x # h))

unique(train_targets) ==
    SortedSeq({train_targets[i] : i \in DOMAIN train_targets})

\* train_preds[train_targets == target].copy(): the rows whose label is
\* target, in their order of occurrence.
RECURSIVE BoolIndex(_, _, _)
BoolIndex(train_preds, train_targets, target) ==
    IF train_preds = <<>> THEN <<>>
    ELSE (IF Head(train_targets) = target THEN <<Head(train_preds)>> ELSE <<>>)
         \o BoolIndex(Tail(train_preds), Tail(train_targets), target)

\* The generator np.random.default_rng(seed) is a deterministic stream, here
\* a linear congruential one: bit_state is its state after pos + 1 steps and
\* next_double its pos-th double in [0, 1), kept to one decimal (a digit 0..9).
RECURSIVE bit_state(_, _)
bit_state(seed, pos) ==
    LET x == IF pos = 0 THEN seed % 101 ELSE bit_state(seed, pos - 1)
    IN (47 * x + 29) % 101

next_double(seed, pos) == (bit_state(seed, pos) * 10) \div 101

\* exp(-lam) in thousandths, lam in tenths (the ratios the model subsamples
\* with are at most 0.5).
enlam(lam) ==
    CASE lam = 1 -> 905 [] lam = 2 -> 819 [] lam = 3 -> 741
      [] lam = 4 -> 670 [] lam = 5 -> 607

\* numpy's random_poisson_mult (lam < 10): multiply uniforms until the product
\* falls to exp(-lam); the sample is the number of uniforms that kept it above.
\* Returns the sample and the stream position after it.
RECURSIVE random_poisson_mult(_, _, _, _, _, _)
random_poisson_mult(seed, pos, lam, num, den, X) ==
    LET n2 == num * next_double(seed, pos)
        d2 == den * 10
    IN IF n2 * 1000 > enlam(lam) * d2
       THEN random_poisson_mult(seed, pos + 1, lam, n2, d2, X + 1)
       ELSE [x |-> X, pos |-> pos + 1]

\* rng.poisson(lam, size): size samples drawn one after the other.
RECURSIVE poisson(_, _, _, _)
poisson(seed, pos, lam, size) ==
    IF size = 0 THEN [occ |-> <<>>, pos |-> pos]
    ELSE LET s == random_poisson_mult(seed, pos, lam, 1, 1, 0)
             rest == poisson(seed, s.pos, lam, size - 1)
         IN [occ |-> <<s.x>> \o rest.occ, pos |-> rest.pos]

\* M_x[np.arange(n).repeat(occurences)]: row i taken occurences[i] times.
RECURSIVE repeat(_, _)
repeat(M_x, occurences) ==
    IF M_x = <<>> THEN <<>>
    ELSE [k \in 1..Head(occurences) |-> Head(M_x)]
         \o repeat(Tail(M_x), Tail(occurences))

\* rng.shuffle(M_x, axis=0): Fisher-Yates from the last row down, one draw
\* per step.  i is the 1-based index of the row being placed.
RECURSIVE shuffle(_, _, _, _)
shuffle(M_x, seed, pos, i) ==
    IF i <= 1 THEN [x |-> M_x, pos |-> pos]
    ELSE LET j == ((next_double(seed, pos) * i) \div 10) + 1
             swapped == [M_x EXCEPT ![i] = M_x[j], ![j] = M_x[i]]
         IN shuffle(swapped, seed, pos + 1, i - 1)

\* ---------------------------------------------------- private_mean
\* algos.multivariate_mean_iterative: the iterative clip / aggregate / noise /
\* recenter estimator.  Its output is a noisy vector; it is represented by the
\* application itself (the inputs that determine its distribution).  It fails
\* with EmptyInput on zero points.
multivariate_mean_iterative(X, c, r, t, budgets) ==
    IF Len(X) = 0 THEN [status |-> "EmptyInput", mean |-> None]
    ELSE [status |-> "ok",
          mean |-> Some([X |-> X, c |-> c, r |-> r, t |-> t, Ps |-> budgets])]

\* np.sqrt(d) for the d of the model.
sqrt(d) == CHOOSE s \in 0..d : s * s = d

private_mean(X, budgets, ndim) ==
    IF ndim # 2 THEN [status |-> "ValueError", mean |-> None]
    ELSE LET d == D
             r == sqrt(d) * 3
             c == [k \in 1..d |-> 0]
             t == Len(budgets)
         IN multivariate_mean_iterative(X, c, r, t, budgets)

\* ------------------------------------------- give_private_prototypes
\* The subsampling of one partition from position pos of the stream.
subsample(M_x, seed, pos, subsampling, poisson_sampling) ==
    LET n == Len(M_x)
    IN IF poisson_sampling
       THEN LET o == poisson(seed, pos, subsampling, n)
            IN [x |-> repeat(M_x, o.occ), pos |-> o.pos]
       ELSE LET s == shuffle(M_x, seed, pos, n)
            IN [x |-> SubSeq(s.x, 1, (subsampling * n) \div One), pos |-> s.pos]

\* The loop walking the partitions from the last to the first.
RECURSIVE subsample_loop_reversed(_, _, _, _, _)
subsample_loop_reversed(parts, seed, pos, subsampling, poisson_sampling) ==
    IF parts = <<>> THEN [subsampled |-> <<>>, pos |-> pos]
    ELSE LET rest == subsample_loop_reversed(Tail(parts), seed, pos,
                                             subsampling, poisson_sampling)
             one == subsample(Head(parts), seed, rest.pos,
                              subsampling, poisson_sampling)
         IN [subsampled |-> <<one.x>> \o rest.subsampled, pos |-> one.pos]

\* The subsampling loop: one generator, created before the loop, serves the
\* partitions one after the other; pos is its position in the stream.
RECURSIVE subsample_loop(_, _, _, _, _)
subsample_loop(train_preds_sorted, seed, pos, subsampling, poisson_sampling) ==
    IF train_preds_sorted = <<>> THEN [subsampled |-> <<>>, pos |-> pos]
    ELSE LET one == subsample(Head(train_preds_sorted), seed, pos, subsampling,
                              poisson_sampling)
             rest == subsample_loop(Tail(train_preds_sorted), seed, one.pos,
                                    subsampling, poisson_sampling)
         IN [subsampled |-> <<one.x>> \o rest.subsampled, pos |-> rest.pos]

\* The comprehension leaving out the partitions without points.
RECURSIVE protos_skip_empty(_, _, _)
protos_skip_empty(train_preds_sorted, budgets, ndim) ==
    IF train_preds_sorted = <<>> THEN [status |-> "ok", rows |-> <<>>, calls |-> 0]
    ELSE LET rest == protos_skip_empty(Tail(train_preds_sorted), budgets, ndim)
             m == private_mean(Head(train_preds_sorted), budgets, ndim)
         IN IF Head(train_preds_sorted) = <<>> THEN rest
            ELSE IF m.status # "ok"
            THEN [status |-> m.status, rows |-> <<>>, calls |-> 1]
            ELSE [status |-> rest.status,
                  rows |-> IF rest.status = "ok"
                           THEN <<Val(m.mean)>> \o rest.rows ELSE <<>>,
                  calls |-> 1 + rest.calls]

\* The list comprehension over private_mean: the first failure ends it.
\* calls counts the estimator calls made.
RECURSIVE protos_of(_, _, _)
protos_of(train_preds_sorted, budgets, ndim) ==
    IF train_preds_sorted = <<>> THEN [status |-> "ok", rows |-> <<>>, calls |-> 0]
    ELSE LET m == private_mean(Head(train_preds_sorted), budgets, ndim)
         IN IF m.status # "ok"
            THEN [status |-> m.status, rows |-> <<>>, calls |-> 1]
            ELSE LET rest == protos_of(Tail(train_preds_sorted), budgets, ndim)
                 IN [status |-> rest.status,
                     rows |-> IF rest.status = "ok"
                              THEN <<Val(m.mean)>> \o rest.rows ELSE <<>>,
                     calls |-> 1 + rest.calls]

\* The partition of train_preds by the sorted distinct labels.
partition(train_preds, train_targets) ==
    LET targets == unique(train_targets)
    IN [j \in 1..Len(targets) |-> BoolIndex(train_preds, train_targets, targets[j])]

\* give_private_prototypes(train_preds, train_targets, Ps, seed, subsampling,
\* sample_each_step, poisson_sampling); a is the record of its arguments.  The
\* result carries what the call did: the labels found, the partitions handed
\* to the estimator, the generator draws consumed, the estimator calls made.
\* assemble is the body after the sample_each_step guard.
assemble(a) ==
    LET targets == unique(a.train_targets)
        sorted == partition(a.train_preds, a.train_targets)
    IN IF a.subsampling = None
       THEN [status |-> "TypeError", protos |-> None,
             targets |-> Some(targets), train_preds_sorted |-> Some(sorted),
             draws |-> 0, calls |-> 0]
       ELSE LET sub == IF Val(a.subsampling) < One
                       THEN subsample_loop(sorted, a.seed, 0,
                                Val(a.subsampling), a.poisson_sampling)
                       ELSE [subsampled |-> sorted, pos |-> 0]
                p == protos_of(sub.subsampled, a.Ps, a.ndim)
            IN [status |-> p.status,
                protos |-> IF p.status = "ok" THEN Some(p.rows) ELSE None,
                targets |-> Some(targets),
                train_preds_sorted |-> Some(sub.subsampled),
                draws |-> sub.pos, calls |-> p.calls]

\* The call without the sample_each_step guard.
give_private_prototypes_unguarded(a) == assemble(a)

give_private_prototypes(a) ==
    IF a.sample_each_step
    THEN [status |-> "NotImplementedError", protos |-> None, targets |-> None,
          train_preds_sorted |-> None, draws |-> 0, calls |-> 0]
    ELSE assemble(a)

\* ------------------------------------------------ inputs of the model
Labels == {1, 2}
Points == {1, 2}
Seeds == {DefaultSeed, 7}
Ratios == {None, Some(2), Some(5), Some(One)}
Budgets == {<<1, 2>>}

\* Training sets: up to MaxN labelled points.
TrainingSets ==
    UNION {[train_preds : [1..n -> Points], train_targets : [1..n -> Labels]]
           : n \in 0..MaxN}

CallArgs ==
    {[train_preds |-> ts.train_preds, train_targets |-> ts.train_targets,
      ndim |-> nd, Ps |-> b, seed |-> s, subsampling |-> r,
      sample_each_step |-> ses, poisson_sampling |-> ps]
     : ts \in TrainingSets, nd \in {1, 2}, b \in Budgets, s \in Seeds,
       r \in Ratios, ses \in BOOLEAN, ps \in BOOLEAN}

\* ------------------------------------------- CoinpressPrototyping
\* What the most recent operation did: its name, the value it was given, how it
\* ended, whether it warned, and for the calibrations the path taken.
Done(op, arg, outcome, warned, path) ==
    [op |-> op, arg |-> arg, outcome |-> outcome, warned |-> warned, path |-> path]

\* The epsilon condition letting zero through.
epsilon_nonnegative(value) == IF value # None THEN Val(value) >= 0 ELSE TRUE

\* The conditions the setters assert.
epsilon_ok(value) == IF value # None THEN Val(value) > 0 ELSE TRUE
delta_ok(value) == IF value # None THEN Val(value) > 0 ELSE TRUE
steps_ok(value) == IF value # None THEN Val(value) > 0 ELSE TRUE
p_sampling_ok(value) ==
    IF value # None THEN (Val(value) > 0 /\ Val(value) <= One) ELSE TRUE
dist_ok(value) == value \in {Some("lin"), Some("exp"), Some("log"), Some("eq"), None}

\* The setter that replaces silently.
mechanism_never_warns(held) == FALSE

\* The mechanism setter warns when a mechanism is already held.
mechanism_warns(held) == held # None

\* The mechanisms.  params["Ps"] is the field Ps.
CoinpressGM(budgets, p, ses) ==
    [name |-> "CoinpressGM", scale |-> 1, Ps |-> budgets,
     p_sampling |-> p, sample_each_step |-> ses]

\* BudgetScheduler: steps budgets, equal under eq and growing with the round
\* under the other policies.
schedule(n, policy) ==
    [i \in 1..n |-> IF policy = "eq" THEN 1 ELSE i]

ScaledCoinpressGM(scale, budgets, p, ses) ==
    [name |-> "ScaledCoinpressGM", scale |-> scale,
     Ps |-> [i \in DOMAIN budgets |-> scale * budgets[i]],
     p_sampling |-> p, sample_each_step |-> ses]

\* calibrate_single_param: the search for the scale that meets (epsilon,
\* delta).  It ends with a scale, or fails: InvalidTarget on a non-positive
\* target, CalibrationDivergence when no scale in its range meets the target.
Scales == {2}

calibrate_single_param(eps, dlt) ==
    IF Val(eps) <= 0 \/ Val(dlt) <= 0
    THEN {[status |-> "InvalidTarget", scale |-> 0]}
    ELSE {[status |-> "CalibrationDivergence", scale |-> 0]}
         \cup {[status |-> "ok", scale |-> sc] : sc \in Scales}

\* try_calibrate looking at dist, order and steps before Ps.
try_calibrate_path_shape_first(eps, dlt, budgets, policy, ord, n) ==
    IF eps = None \/ dlt = None THEN "return"
    ELSE IF policy = None \/ ord = None \/ n = None THEN "return"
    ELSE IF budgets # None THEN "calibrate_Ps"
    ELSE "calibrate_steps"

\* try_calibrate: which calibration it runs, from the fields that are set.
try_calibrate_path(eps, dlt, budgets, policy, ord, n) ==
    IF eps = None \/ dlt = None THEN "return"
    ELSE IF budgets # None THEN "calibrate_Ps"
    ELSE IF policy = None \/ ord = None \/ n = None THEN "return"
    ELSE "calibrate_steps"

\* prototypes without its guard: no mechanism means no budgets.
prototypes_call_unguarded(mech, p, ses, seed, data) ==
    LET a == [train_preds |-> data.train_preds,
              train_targets |-> data.train_targets, ndim |-> 2,
              Ps |-> IF mech = None THEN <<>> ELSE Val(mech).Ps,
              seed |-> seed, subsampling |-> p,
              sample_each_step |-> ses, poisson_sampling |-> TRUE]
        r == give_private_prototypes(a)
    IN [outcome |-> r.status, args |-> Some(a), ret |-> Some(r)]

\* prototypes: the call it makes to give_private_prototypes, if any.
prototypes_call(mech, p, ses, seed, data) ==
    IF mech = None
    THEN [outcome |-> "ValueError: Mechanism not calibrated",
          args |-> None, ret |-> None]
    ELSE LET a == [train_preds |-> data.train_preds,
                   train_targets |-> data.train_targets, ndim |-> 2,
                   Ps |-> Val(mech).Ps, seed |-> seed, subsampling |-> p,
                   sample_each_step |-> ses, poisson_sampling |-> TRUE]
             r == give_private_prototypes(a)
         IN [outcome |-> r.status, args |-> Some(a), ret |-> Some(r)]

\* Values the operations of the model are given.
EpsilonValues == {None, Some(0), Some(1)}
DeltaValues == {None, Some(0), Some(10)}
StepsValues == {None, Some(0), Some(2)}
DistValues == {None, Some("eq"), Some("bad")}
OrderValues == {None, Some(1)}
PSamplingValues == {Some(0), Some(5), Some(One), Some(15)}
PsValues == {None} \cup {Some(b) : b \in Budgets}
MechanismValues == {None, Some(CoinpressGM(<<1, 2>>, Some(One), FALSE))}
OverwriteSeeds == {None, Some(7)}
SessionData ==
    {[train_preds |-> <<1, 2, 2>>, train_targets |-> <<2, 1, 2>>],
     [train_preds |-> <<1>>, train_targets |-> <<1>>]}

NoCall == args' = None /\ ret' = None

\* Construction: the dataclass stores the fields as given, without the
\* setters; __post_init__ builds a CoinpressGM when calibrated is set.
Init ==
    /\ epsilon \in {None, Some(-1), Some(1)}
    /\ delta \in {None, Some(10)}
    /\ steps \in {None, Some(2)}
    /\ dist \in {None, Some("eq")}
    /\ Ps \in PsValues
    /\ p_sampling \in {Some(5), Some(One)}
    /\ sample_each_step \in BOOLEAN
    /\ order = Some(1)
    /\ \E calibrated \in BOOLEAN :
         /\ calibrated => Ps # None
         /\ mechanism = IF calibrated
                        THEN Some(CoinpressGM(Val(Ps), p_sampling, sample_each_step))
                        ELSE None
         /\ last = Done("init", None, "ok",
                        calibrated /\ mechanism_warns(None), "")
    /\ args = None
    /\ ret = None

SetEpsilon(value) ==
    /\ epsilon' = IF epsilon_ok(value) THEN value ELSE epsilon
    /\ last' = Done("epsilon", value,
                    IF epsilon_ok(value) THEN "ok" ELSE "AssertionError", FALSE, "")
    /\ NoCall
    /\ UNCHANGED <<delta, steps, dist, Ps, p_sampling, sample_each_step, order,
                   mechanism>>

SetDelta(value) ==
    /\ delta' = IF delta_ok(value) THEN value ELSE delta
    /\ last' = Done("delta", value,
                    IF delta_ok(value) THEN "ok" ELSE "AssertionError", FALSE, "")
    /\ NoCall
    /\ UNCHANGED <<epsilon, steps, dist, Ps, p_sampling, sample_each_step, order,
                   mechanism>>

SetSteps(value) ==
    /\ steps' = IF steps_ok(value) THEN value ELSE steps
    /\ last' = Done("steps", value,
                    IF steps_ok(value) THEN "ok" ELSE "AssertionError", FALSE, "")
    /\ NoCall
    /\ UNCHANGED <<epsilon, delta, dist, Ps, p_sampling, sample_each_step, order,
                   mechanism>>

SetDist(value) ==
    /\ dist' = IF dist_ok(value) THEN value ELSE dist
    /\ last' = Done("dist", value,
                    IF dist_ok(value) THEN "ok" ELSE "AssertionError", FALSE, "")
    /\ NoCall
    /\ UNCHANGED <<epsilon, delta, steps, Ps, p_sampling, sample_each_step, order,
                   mechanism>>

SetPSampling(value) ==
    /\ p_sampling' = IF p_sampling_ok(value) THEN value ELSE p_sampling
    /\ last' = Done("p_sampling", value,
                    IF p_sampling_ok(value) THEN "ok" ELSE "AssertionError", FALSE, "")
    /\ NoCall
    /\ UNCHANGED <<epsilon, delta, steps, dist, Ps, sample_each_step, order,
                   mechanism>>

SetOrder(value) ==
    /\ order' = value
    /\ last' = Done("order", value, "ok", FALSE, "")
    /\ NoCall
    /\ UNCHANGED <<epsilon, delta, steps, dist, Ps, p_sampling, sample_each_step,
                   mechanism>>

\* Ps and sample_each_step are plain fields.
SetPs(value) ==
    /\ Ps' = value
    /\ last' = Done("Ps", value, "ok", FALSE, "")
    /\ NoCall
    /\ UNCHANGED <<epsilon, delta, steps, dist, p_sampling, sample_each_step,
                   order, mechanism>>

SetSampleEachStep(value) ==
    /\ sample_each_step' = value
    /\ last' = Done("sample_each_step", Some(value), "ok", FALSE, "")
    /\ NoCall
    /\ UNCHANGED <<epsilon, delta, steps, dist, Ps, p_sampling, order, mechanism>>

SetMechanism(value) ==
    /\ mechanism' = value
    /\ last' = Done("mechanism", value, "ok", mechanism_warns(mechanism), "")
    /\ NoCall
    /\ UNCHANGED cfg

\* The two calibrations: the search, then the assignment of its result to
\* mechanism.  A failed search leaves the mechanism as it was.
Calibrate(op, path, budgets) ==
    \E o \in calibrate_single_param(epsilon, delta) :
       /\ mechanism' = IF o.status = "ok"
                       THEN Some(ScaledCoinpressGM(o.scale, budgets, p_sampling,
                                                   sample_each_step))
                       ELSE mechanism
       /\ last' = Done(op, None, o.status,
                       o.status = "ok" /\ mechanism_warns(mechanism), path)
       /\ NoCall
       /\ UNCHANGED cfg

calibrate_steps(op) ==
    Calibrate(op, "calibrate_steps", schedule(Val(steps), Val(dist)))

calibrate_Ps(op) == Calibrate(op, "calibrate_Ps", Val(Ps))

TryCalibrate ==
    LET path == try_calibrate_path(epsilon, delta, Ps, dist, order, steps)
    IN CASE path = "calibrate_Ps" -> calibrate_Ps("try_calibrate")
         [] path = "calibrate_steps" -> calibrate_steps("try_calibrate")
         [] OTHER -> /\ last' = Done("try_calibrate", None, "ok", FALSE, "return")
                     /\ NoCall
                     /\ UNCHANGED <<cfg, mechanism>>

\* Direct calls, on configurations that hold the fields the call reads.
CalibrateSteps ==
    /\ epsilon # None /\ delta # None /\ steps # None /\ dist # None
    /\ calibrate_steps("calibrate_steps")

CalibratePs ==
    /\ epsilon # None /\ delta # None /\ Ps # None
    /\ calibrate_Ps("calibrate_Ps")

Prototypes(data, overwrite_seed) ==
    LET seed == IF overwrite_seed = None THEN DefaultSeed ELSE Val(overwrite_seed)
        c == prototypes_call(mechanism, p_sampling, sample_each_step, seed, data)
    IN /\ last' = Done("prototypes", overwrite_seed, c.outcome, FALSE, "")
       /\ args' = c.args
       /\ ret' = c.ret
       /\ UNCHANGED <<cfg, mechanism>>

Next ==
    \/ \E v \in EpsilonValues : SetEpsilon(v)
    \/ \E v \in DeltaValues : SetDelta(v)
    \/ \E v \in StepsValues : SetSteps(v)
    \/ \E v \in DistValues : SetDist(v)
    \/ \E v \in PSamplingValues : SetPSampling(v)
    \/ \E v \in OrderValues : SetOrder(v)
    \/ \E v \in PsValues : SetPs(v)
    \/ \E v \in BOOLEAN : SetSampleEachStep(v)
    \/ \E v \in MechanismValues : SetMechanism(v)
    \/ TryCalibrate
    \/ CalibrateSteps
    \/ CalibratePs
    \/ \E data \in SessionData, s \in OverwriteSeeds : Prototypes(data, s)

Spec == Init /\ [][Next]_vars

\* Direct calls of give_private_prototypes: one call on each input of the
\* model.
InitCall ==
    /\ epsilon = None /\ delta = None /\ steps = None /\ dist = None
    /\ Ps = None /\ p_sampling = Some(One) /\ sample_each_step = FALSE
    /\ order = Some(1) /\ mechanism = None
    /\ last = Done("init", None, "ok", FALSE, "")
    /\ args \in {Some(a) : a \in CallArgs}
    /\ ret = None

GivePrivatePrototypes ==
    /\ args # None
    /\ ret = None
    /\ ret' = Some(give_private_prototypes(Val(args)))
    /\ last' = Done("give_private_prototypes", None, Val(ret').status, FALSE, "")
    /\ UNCHANGED <<cfg, mechanism, args>>

NextCall == GivePrivatePrototypes

SpecCall == InitCall /\ [][NextCall]_vars

\* Both: sessions on a configuration, and direct calls.
SpecAll == (Init \/ InitCall) /\ [][Next \/ NextCall]_vars

\* ================================================================ claims
Calibrations == {"try_calibrate", "calibrate_steps", "calibrate_Ps"}
NotCalibrated == "ValueError: Mechanism not calibrated"

\* C1: prototypes on a configuration that holds no mechanism fails with
\* "Mechanism not calibrated", makes no call to the partitioning, subsampling
\* or estimation, and leaves the configuration unchanged.
C1_NotCalibrated ==
    [][(last'.op = "prototypes" /\ mechanism = None)
        => /\ last'.outcome = NotCalibrated
           /\ args' = None /\ ret' = None
           /\ UNCHANGED <<cfg, mechanism>>]_vars

C1_Witness ==
    /\ last.op = "prototypes" /\ mechanism = None
    /\ last.outcome = NotCalibrated /\ ret = None

\* C2: a setter given an invalid value (epsilon, delta or steps not positive,
\* p_sampling outside (0, 1]) fails at the assignment, with no calibration or
\* estimation run and the stored value unchanged; given a valid value it
\* stores it.
Rejected(op, v) ==
    /\ v # None
    /\ IF op = "p_sampling" THEN Val(v) <= 0 \/ Val(v) > 10 ELSE Val(v) <= 0

SetterStep(op, old, new) ==
    last'.op = op
    => IF Rejected(op, last'.arg)
       THEN /\ last'.outcome = "AssertionError"
            /\ new = old
            /\ mechanism' = mechanism /\ args' = None /\ ret' = None
       ELSE /\ last'.outcome = "ok"
            /\ new = last'.arg

C2_SetterValidation ==
    [][/\ SetterStep("epsilon", epsilon, epsilon')
       /\ SetterStep("delta", delta, delta')
       /\ SetterStep("steps", steps, steps')
       /\ SetterStep("p_sampling", p_sampling, p_sampling')]_vars

C2_Witness ==
    /\ last.op = "epsilon" /\ last.arg = Some(0)
    /\ last.outcome = "AssertionError" /\ epsilon = Some(1)

\* C3: an estimation requested with sample_each_step set fails with
\* NotImplementedError before any partitioning, generator draw or estimator
\* call, and returns no prototypes; prototypes on a configuration that holds a
\* mechanism and has sample_each_step set ends that way.
C3_SampleEachStep ==
    /\ (ret # None /\ Val(args).sample_each_step)
        => /\ Val(ret).status = "NotImplementedError"
           /\ Val(ret).protos = None
           /\ Val(ret).targets = None
           /\ Val(ret).train_preds_sorted = None
           /\ Val(ret).draws = 0 /\ Val(ret).calls = 0
    /\ (last.op = "prototypes" /\ mechanism # None /\ sample_each_step)
        => /\ last.outcome = "NotImplementedError"
           /\ ret # None /\ Val(args).sample_each_step

C3_Witness ==
    /\ last.op = "prototypes" /\ mechanism # None /\ sample_each_step
    /\ last.outcome = "NotImplementedError"

\* C4: when subsampling leaves a label of the training set without points,
\* the call fails (with EmptyInput when the input is two-dimensional) and
\* returns no prototype matrix.
EmptyClass ==
    /\ ret # None
    /\ Val(ret).train_preds_sorted # None
    /\ \E j \in DOMAIN Val(Val(ret).train_preds_sorted) :
          Val(Val(ret).train_preds_sorted)[j] = <<>>

C4_EmptyClassFails ==
    EmptyClass
    => /\ Val(ret).protos = None
       /\ Val(ret).status # "ok"
       /\ Val(args).ndim = 2 /\ Val(args).subsampling # None
            => Val(ret).status = "EmptyInput"

C4_Witness ==
    /\ EmptyClass
    /\ Val(args).ndim = 2
    /\ Val(args).subsampling = Some(5)
    /\ Cardinality({Val(args).train_targets[i] :
                        i \in DOMAIN Val(args).train_targets}) = 2
    /\ Val(ret).status = "EmptyInput"

\* C5: a successful call returns one row per distinct label, in ascending
\* label order whatever the order of the labels in train_targets, and row j is
\* the estimator's output on points of the j-th smallest label only (all of
\* them, in order, when there is no subsampling).
LabelSet(a) == {a.train_targets[i] : i \in DOMAIN a.train_targets}
Rank(a, j) ==
    CHOOSE L \in LabelSet(a) : Cardinality({l \in LabelSet(a) : l < L}) = j - 1
RowsOf(a, L) == {i \in DOMAIN a.train_targets : a.train_targets[i] = L}
Nth(I, k) == CHOOSE i \in I : Cardinality({h \in I : h < i}) = k - 1

C5_RowsByLabel ==
    (ret # None /\ Val(ret).status = "ok")
    => LET a == Val(args)
           rows == Val(Val(ret).protos)
       IN /\ Len(rows) = Cardinality(LabelSet(a))
          /\ \A j \in DOMAIN rows :
               LET I == RowsOf(a, Rank(a, j))
               IN /\ \A k \in DOMAIN rows[j].X :
                       \E i \in I : rows[j].X[k] = a.train_preds[i]
                  /\ Val(a.subsampling) >= 10
                       => /\ Len(rows[j].X) = Cardinality(I)
                          /\ \A k \in DOMAIN rows[j].X :
                               rows[j].X[k] = a.train_preds[Nth(I, k)]

C5_Witness ==
    /\ ret # None /\ Val(ret).status = "ok"
    /\ Val(args).train_targets = <<2, 1, 2>>
    /\ Val(args).train_preds = <<1, 2, 1>>
    /\ Val(args).subsampling = Some(5)
    /\ Len(Val(Val(ret).protos)) = 2

\* C6: the subsample of a partition for a fixed seed, ratio and sampling mode.
\* SameSubsample(before) says: in every other training set that holds the
\* same partition for a label (and, with before, partitions of the same sizes
\* for the smaller labels), that label's subsample is the same.
Position(a, L) == 1 + Cardinality({l \in LabelSet(a) : l < L})
SizesBefore(a, L) ==
    [j \in 1..(Position(a, L) - 1) |-> Cardinality(RowsOf(a, Rank(a, j)))]

SameSubsample(before) ==
    (/\ ret # None
     /\ Val(ret).train_preds_sorted # None
     /\ Val(args).subsampling # None)
    => LET a == Val(args)
       IN Val(a.subsampling) < 10
          => \A ts \in TrainingSets :
               LET b == [a EXCEPT !.train_preds = ts.train_preds,
                                  !.train_targets = ts.train_targets]
                   rb == give_private_prototypes(b)
               IN \A L \in LabelSet(a) \cap LabelSet(b) :
                    (/\ BoolIndex(a.train_preds, a.train_targets, L)
                          = BoolIndex(b.train_preds, b.train_targets, L)
                     /\ before => SizesBefore(a, L) = SizesBefore(b, L))
                    => Val(Val(ret).train_preds_sorted)[Position(a, L)]
                         = Val(rb.train_preds_sorted)[Position(b, L)]

Assigns(l) ==
    \/ l.op = "mechanism"
    \/ l.op \in Calibrations /\ l.outcome = "ok" /\ l.path # "return"

C7_OverwriteWarns ==
    [][/\ (mechanism # None /\ mechanism' # mechanism) => last'.warned
       /\ Assigns(last') => /\ last'.outcome = "ok"
                            /\ last'.warned = (mechanism # None)
       /\ last'.op = "mechanism" => mechanism' = last'.arg]_vars

C7_Witness ==
    /\ last.op = "try_calibrate" /\ last.outcome = "ok"
    /\ last.warned /\ mechanism # None

\* C8: try_calibrate returns without calibrating, the mechanism unchanged,
\* when epsilon or delta is unset; otherwise calibrates by Ps when Ps is set,
\* whatever dist, order and steps; otherwise calibrates by steps when dist,
\* order and steps are all set, and returns without calibrating when one of
\* them is unset.
C8_TryCalibratePath ==
    [][last'.op = "try_calibrate"
       => IF epsilon = None \/ delta = None
          THEN last'.path = "return" /\ mechanism' = mechanism
          ELSE IF Ps # None
          THEN /\ last'.path = "calibrate_Ps"
               /\ last'.outcome = "ok"
                    => Len(Val(mechanism').Ps) = Len(Val(Ps))
          ELSE IF dist # None /\ order # None /\ steps # None
          THEN /\ last'.path = "calibrate_steps"
               /\ last'.outcome = "ok"
                    => Len(Val(mechanism').Ps) = Val(steps)
          ELSE last'.path = "return" /\ mechanism' = mechanism]_vars

C8_Witness ==
    /\ last.op = "try_calibrate" /\ last.path = "calibrate_Ps"
    /\ last.outcome = "ok"
    /\ dist = None /\ steps = None /\ Ps # None

\* C9: the subsampling ratio and the sample_each_step flag that prototypes
\* passes to the estimation are the ones the held mechanism was calibrated
\* with.
C9_CalibratedSampling ==
    (/\ last.op = "prototypes" /\ ret # None
     /\ Val(mechanism).name = "ScaledCoinpressGM")
    => /\ Val(args).subsampling = Val(mechanism).p_sampling
       /\ Val(args).sample_each_step = Val(mechanism).sample_each_step

\* C10: in every reachable state epsilon, delta and steps are unset or
\* positive, p_sampling is unset or in (0, 1], and dist is unset or one of
\* lin, exp, log, eq.
C10_FieldsValid ==
    /\ epsilon = None \/ Val(epsilon) > 0
    /\ delta = None \/ Val(delta) > 0
    /\ steps = None \/ Val(steps) > 0
    /\ p_sampling = None \/ (Val(p_sampling) > 0 /\ Val(p_sampling) <= 10)
    /\ dist = None \/ Val(dist) \in {"lin", "exp", "log", "eq"}

====
